---------------------------- MODULE Spec2Model ----------------------------
(***************************************************************************)
(* SUSPECT: the session ("Game") state machine, the accusation protocol of *)
(* PuzzleView, the puzzle loader of App and the Player Record reducer.     *)
(*                                                                         *)
(* Ids are strings; a null reference is NULL; a null timestamp is NullTime.*)
(* A Puzzle is represented by its id, a Solution by its culprit id (the    *)
(* remaining fields of both are display text).                             *)
(***************************************************************************)
EXTENDS Integers, Sequences, FiniteSets, TLC

VARIABLES
    game,       \* GameContext reducer state (the session)
    player,     \* PlayerContext reducer state (the Player Record)
    daily,      \* useDaily: "loading" or "ready" (dailyPuzzleId known)
    view,       \* AppInner: the current AppView
    currentMode,\* AppInner: the mode tab
    loads,      \* AppInner: loadPuzzle calls awaiting fetchPuzzle, in request order
    pv,         \* PuzzleView: useState values of the mounted instance
    inst,       \* PuzzleView: number of instances mounted so far
    procs,      \* handleConfirmAccusation invocations awaiting the fetch or the delay
    now,        \* the wall clock, Date.now(), in ticks of one UTC day
    sess,       \* history: number of START_PUZZLE / RESET dispatched by App
    confirmed,  \* history: an accusation was confirmed in the current session
    terminalSess, \* history: sessions that reached solved or failed
    completedBy,  \* history: for each COMPLETE_PUZZLE, the session that confirmed it
    last,       \* history: the action dispatched or the handler run by the last step
    storage,    \* localStorage[STORAGE_KEY]: <<>> when absent, else <<the stored text>>
    timers,     \* the browser's pending timeouts set by PlayerProvider
    provider,   \* PlayerProvider: mounted flag and the refs isInitialised, saveTimerRef
    call,       \* the pure function applied by the last step, its inputs and result
    streakDays, \* history: the UTC days on which UPDATE_STREAK was dispatched
    failedAttempt \* history: what the confirm whose fetch failed last had captured

NULL == "null"
NullTime == 0 - 1
\* an optional number that is undefined
Undefined == 0 - 1

MaxNow == 2
MaxSess == 2
MaxLoads == 2
MaxProcs == 2

MAX_CLUES == 3
MAX_HINTS == 2

Suspects == {"s1", "s2", "s3"}
\* ids offered to the reducer, in the display order of the panels; the 4th
\* clue id and the 3rd hint id exist to exercise the caps
ClueOrder == <<"c1", "c2", "c3", "c4">>
HintOrder == <<"h1", "h2", "h3">>
PuzzleIds == {"p1", "p2"}

\* p1 is the daily puzzle, p2 a puzzle of a practice pack
ModeOf(p) == IF p = "p1" THEN "daily" ELSE "practice"

Includes(seq, x) == \E i \in 1..Len(seq) : seq[i] = x
Range(seq) == {seq[i] : i \in 1..Len(seq)}

\* sorted.find((x) => !revealed.includes(x.id)) ?? null
nextUnrevealed(sorted, revealed) ==
    IF \A i \in 1..Len(sorted) : Includes(revealed, sorted[i]) THEN NULL
    ELSE sorted[CHOOSE i \in 1..Len(sorted) :
                    /\ ~Includes(revealed, sorted[i])
                    /\ \A j \in 1..(i - 1) : Includes(revealed, sorted[j])]

initialGameState ==
    [puzzleId |-> "", mode |-> "daily", puzzle |-> NULL, solution |-> NULL,
     revealedClues |-> <<>>, revealedHints |-> <<>>, selectedSuspect |-> NULL,
     status |-> "playing", startedAt |-> 0, solvedAt |-> NullTime,
     expandedSuspect |-> NULL]

\* solution.culprit: a Solution is held as the id of its culprit
culprit(solution) == solution

StartPuzzleAct(puzzle, mode) == [type |-> "START_PUZZLE", puzzle |-> puzzle, mode |-> mode]
RevealClueAct(clueId) == [type |-> "REVEAL_CLUE", clueId |-> clueId]
RevealHintAct(hintId) == [type |-> "REVEAL_HINT", hintId |-> hintId]
SelectSuspectAct(suspectId) == [type |-> "SELECT_SUSPECT", suspectId |-> suspectId]
ExpandSuspectAct(suspectId) == [type |-> "EXPAND_SUSPECT", suspectId |-> suspectId]
MakeAccusationAct == [type |-> "MAKE_ACCUSATION"]
SetSolutionAct(solution) == [type |-> "SET_SOLUTION", solution |-> solution]
ResetAct == [type |-> "RESET"]

\* a start that keeps the selection and the solution of the prior session
reduceStartPuzzle_KeepsPrior(state, action, t) ==
    [state EXCEPT !.puzzleId = action.puzzle, !.mode = action.mode,
                  !.puzzle = action.puzzle, !.startedAt = t,
                  !.status = "playing", !.solvedAt = NullTime,
                  !.revealedClues = <<>>, !.revealedHints = <<>>]

reduceStartPuzzle(state, action, t) ==
    [initialGameState EXCEPT !.puzzleId = action.puzzle, !.mode = action.mode,
                             !.puzzle = action.puzzle, !.startedAt = t]

\* reveal without the cap and without the duplicate check
reduceRevealClue_AlwaysAppends(state, action) ==
    IF state.status # "playing" THEN state
    ELSE [state EXCEPT !.revealedClues = Append(@, action.clueId)]

\* reveal without the duplicate check
reduceRevealClue_NoDupCheck(state, action) ==
    IF state.status # "playing" THEN state
    ELSE IF Len(state.revealedClues) >= MAX_CLUES THEN state
    ELSE [state EXCEPT !.revealedClues = Append(@, action.clueId)]

reduceRevealClue(state, action) ==
    IF state.status # "playing" THEN state
    ELSE IF Len(state.revealedClues) >= MAX_CLUES THEN state
    ELSE IF Includes(state.revealedClues, action.clueId) THEN state
    ELSE [state EXCEPT !.revealedClues = Append(@, action.clueId)]

reduceRevealHint(state, action) ==
    IF state.status # "playing" THEN state
    ELSE IF Len(state.revealedHints) >= MAX_HINTS THEN state
    ELSE IF Includes(state.revealedHints, action.hintId) THEN state
    ELSE [state EXCEPT !.revealedHints = Append(@, action.hintId)]

\* a selection that is taken back by selecting the same suspect again
reduceSelectSuspect_Toggle(state, action) ==
    IF state.status # "playing" THEN state
    ELSE [state EXCEPT !.selectedSuspect =
             IF @ = action.suspectId THEN NULL ELSE action.suspectId]

reduceSelectSuspect(state, action) ==
    IF state.status # "playing" THEN state
    ELSE [state EXCEPT !.selectedSuspect = action.suspectId]

reduceExpandSuspect(state, action) ==
    [state EXCEPT !.expandedSuspect =
        IF state.expandedSuspect = action.suspectId THEN NULL ELSE action.suspectId]

\* verdict that ignores the comparison with the culprit
reduceMakeAccusation_AlwaysSolved(state, t) ==
    IF state.status # "playing" THEN state
    ELSE IF state.selectedSuspect = NULL THEN state
    ELSE IF state.solution = NULL THEN state
    ELSE [state EXCEPT !.status = "solved", !.solvedAt = t]

\* verdict without the terminal-status guard
reduceMakeAccusation_NoStatusGuard(state, t) ==
    IF state.selectedSuspect = NULL THEN state
    ELSE IF state.solution = NULL THEN state
    ELSE LET correct == state.selectedSuspect = culprit(state.solution)
             nextStatus == IF correct THEN "solved" ELSE "failed"
         IN [state EXCEPT !.status = nextStatus, !.solvedAt = t]

\* verdict without the solution guard
reduceMakeAccusation_NoSolutionGuard(state, t) ==
    IF state.status # "playing" THEN state
    ELSE IF state.selectedSuspect = NULL THEN state
    ELSE LET correct == state.selectedSuspect = culprit(state.solution)
             nextStatus == IF correct THEN "solved" ELSE "failed"
         IN [state EXCEPT !.status = nextStatus, !.solvedAt = t]

\* verdict without the selected-suspect guard
reduceMakeAccusation_NoSelectionGuard(state, t) ==
    IF state.status # "playing" THEN state
    ELSE IF state.solution = NULL THEN state
    ELSE LET correct == state.selectedSuspect = culprit(state.solution)
             nextStatus == IF correct THEN "solved" ELSE "failed"
         IN [state EXCEPT !.status = nextStatus, !.solvedAt = t]

reduceMakeAccusation(state, t) ==
    IF state.status # "playing" THEN state
    ELSE IF state.selectedSuspect = NULL THEN state
    ELSE IF state.solution = NULL THEN state
    ELSE LET correct == state.selectedSuspect = culprit(state.solution)
             nextStatus == IF correct THEN "solved" ELSE "failed"
         IN [state EXCEPT !.status = nextStatus, !.solvedAt = t]

reduceSetSolution(state, action) ==
    [state EXCEPT !.solution = action.solution]

gameReducer(state, action, t) ==
    CASE action.type = "START_PUZZLE" -> reduceStartPuzzle(state, action, t)
      [] action.type = "REVEAL_CLUE" -> reduceRevealClue(state, action)
      [] action.type = "REVEAL_HINT" -> reduceRevealHint(state, action)
      [] action.type = "SELECT_SUSPECT" -> reduceSelectSuspect(state, action)
      [] action.type = "EXPAND_SUSPECT" -> reduceExpandSuspect(state, action)
      [] action.type = "MAKE_ACCUSATION" -> reduceMakeAccusation(state, t)
      [] action.type = "SET_SOLUTION" -> reduceSetSolution(state, action)
      [] action.type = "RESET" -> initialGameState


(***************************************************************************)
(* Scoring rules and dates (lib/constants, lib/puzzleUtils)                *)
(***************************************************************************)
STAR_RATINGS ==
    [c \in 0..3 |-> CASE c = 0 -> [stars |-> 4, label |-> "MASTERMIND"]
                      [] c = 1 -> [stars |-> 3, label |-> "SHARP-EYED"]
                      [] c = 2 -> [stars |-> 2, label |-> "PERSISTENT"]
                      [] c = 3 -> [stars |-> 1, label |-> "THOROUGH"]]

\* a fallback that extends the table linearly
calculateStars_Linear(cluesUsed) == 4 - cluesUsed

calculateStars(cluesUsed) ==
    IF cluesUsed \in DOMAIN STAR_RATINGS THEN STAR_RATINGS[cluesUsed].stars ELSE 1

getRatingLabel(cluesUsed) ==
    IF cluesUsed \in DOMAIN STAR_RATINGS THEN STAR_RATINGS[cluesUsed].label ELSE "THOROUGH"

\* toISOString().split('T')[0] of the instant t: the clock counts whole UTC
\* days, day 1 being the first day of the run
DateKeys == <<"2026-02-06", "2026-02-07", "2026-02-08", "2026-02-09",
              "2026-02-10", "2026-02-11", "2026-02-12", "2026-02-13">>
isoDate(t) == DateKeys[t + 1]
getTodayUTC(t) == isoDate(t)

(***************************************************************************)
(* Player Record reducer (contexts/PlayerContext.tsx)                      *)
(***************************************************************************)
initialPlayerState ==
    [completedPuzzles |-> [id \in {} |-> NULL],
     streak |-> [current |-> 0, max |-> 0, lastDailyDate |-> ""],
     settings |-> [reduceMotion |-> FALSE],
     hasSeenTutorial |-> FALSE,
     achievements |-> <<>>]

Max(a, b) == IF a >= b THEN a ELSE b

CompletePuzzleAct(info) == [type |-> "COMPLETE_PUZZLE", info |-> info]

\* a completion that keeps the entry an id already has
reduceCompletePuzzle_KeepFirst(state, action, t) ==
    IF action.info.id \in DOMAIN state.completedPuzzles THEN state
    ELSE [state EXCEPT !.completedPuzzles =
            [id \in (DOMAIN state.completedPuzzles) \cup {action.info.id} |->
                IF id = action.info.id
                THEN [solvedAt |-> t, correct |-> action.info.correct,
                      cluesUsed |-> action.info.cluesUsed,
                      timeSeconds |-> action.info.timeSeconds,
                      stars |-> action.info.stars,
                      difficulty |-> action.info.difficulty,
                      hintsUsed |-> action.info.hintsUsed]
                ELSE state.completedPuzzles[id]]]

reduceCompletePuzzle(state, action, t) ==
    LET completion == [solvedAt |-> t,
                       correct |-> action.info.correct,
                       cluesUsed |-> action.info.cluesUsed,
                       timeSeconds |-> action.info.timeSeconds,
                       stars |-> action.info.stars,
                       difficulty |-> action.info.difficulty,
                       hintsUsed |-> action.info.hintsUsed]
    IN [state EXCEPT !.completedPuzzles =
            [id \in (DOMAIN state.completedPuzzles) \cup {action.info.id} |->
                IF id = action.info.id THEN completion ELSE state.completedPuzzles[id]]]

reduceUnlockAchievements(state, ids) ==
    LET NotYet(id) == ~Includes(state.achievements, id)
        newIds == SelectSeq(ids, NotYet)
    IN IF Len(newIds) = 0 THEN state
       ELSE [state EXCEPT !.achievements = state.achievements \o newIds]

\* a streak update without the same-day early return
reduceUpdateStreak_NoSameDayGuard(state, t) ==
    LET isConsecutive == state.streak.lastDailyDate = isoDate(t - 1)
        newCurrent == IF isConsecutive THEN state.streak.current + 1 ELSE 1
    IN [state EXCEPT !.streak = [current |-> newCurrent,
                                 max |-> Max(state.streak.max, newCurrent),
                                 lastDailyDate |-> getTodayUTC(t)]]

\* a streak update that never resets
reduceUpdateStreak_NoReset(state, t) ==
    IF state.streak.lastDailyDate = getTodayUTC(t) THEN state
    ELSE [state EXCEPT !.streak = [current |-> state.streak.current + 1,
                                   max |-> Max(state.streak.max, state.streak.current + 1),
                                   lastDailyDate |-> getTodayUTC(t)]]

\* a streak update that leaves max as it was
reduceUpdateStreak_StaleMax(state, t) ==
    IF state.streak.lastDailyDate = getTodayUTC(t) THEN state
    ELSE [state EXCEPT !.streak.current =
                           IF state.streak.lastDailyDate = isoDate(t - 1) THEN @ + 1 ELSE 1,
                       !.streak.lastDailyDate = getTodayUTC(t)]

reduceUpdateStreak(state, t) ==
    LET today == getTodayUTC(t)
        lastDailyDate == state.streak.lastDailyDate
        yesterdayStr == isoDate(t - 1)
        isConsecutive == lastDailyDate = yesterdayStr
        newCurrent == IF isConsecutive THEN state.streak.current + 1 ELSE 1
        newMax == Max(state.streak.max, newCurrent)
    IN IF lastDailyDate = today THEN state
       ELSE [state EXCEPT !.streak = [current |-> newCurrent, max |-> newMax,
                                      lastDailyDate |-> today]]

\* PlayerProvider.unlockAchievements: dispatches only a non-empty list
unlockAchievements(state, ids) ==
    IF Len(ids) > 0 THEN reduceUnlockAchievements(state, ids) ELSE state

reduceToggleReduceMotion(state) ==
    [state EXCEPT !.settings.reduceMotion = ~state.settings.reduceMotion]

reduceDismissTutorial(state) ==
    [state EXCEPT !.hasSeenTutorial = TRUE]

UnlockAchievementsAct(ids) == [type |-> "UNLOCK_ACHIEVEMENTS", ids |-> ids]
UpdateStreakAct == [type |-> "UPDATE_STREAK"]
ToggleReduceMotionAct == [type |-> "TOGGLE_REDUCE_MOTION"]
DismissTutorialAct == [type |-> "DISMISS_TUTORIAL"]

LoadStateAct(loaded) == [type |-> "LOAD_STATE", state |-> loaded]

\* { ...initialState, ...action.state, achievements: action.state.achievements ?? [] }
\* a LOAD_STATE that takes the snapshot as it is
reduceLoadState_NoDefaults(state, action) == action.state

reduceLoadState(state, action) ==
    LET loaded == action.state
        merged == [f \in (DOMAIN initialPlayerState) \cup (DOMAIN loaded) |->
                      IF f \in DOMAIN loaded THEN loaded[f] ELSE initialPlayerState[f]]
    IN [merged EXCEPT !.achievements =
            IF "achievements" \in DOMAIN loaded THEN loaded.achievements ELSE <<>>]

playerReducer(state, action, t) ==
    CASE action.type = "COMPLETE_PUZZLE" -> reduceCompletePuzzle(state, action, t)
      [] action.type = "UNLOCK_ACHIEVEMENTS" -> reduceUnlockAchievements(state, action.ids)
      [] action.type = "UPDATE_STREAK" -> reduceUpdateStreak(state, t)
      [] action.type = "TOGGLE_REDUCE_MOTION" -> reduceToggleReduceMotion(state)
      [] action.type = "DISMISS_TUTORIAL" -> reduceDismissTutorial(state)
      [] action.type = "LOAD_STATE" -> reduceLoadState(state, action)

(***************************************************************************)
(* Achievement evaluator (lib/achievements)                                *)
(***************************************************************************)
\* a tryUnlock that pushes whenever the condition holds
tryUnlock_AlwaysPushes(unlocked, newlyUnlocked, cond, id) ==
    IF cond THEN Append(newlyUnlocked, id) ELSE newlyUnlocked

\* a tryUnlock that does not look at what is already unlocked
tryUnlock_IgnoresUnlocked(unlocked, newlyUnlocked, cond, id) ==
    IF cond /\ ~Includes(newlyUnlocked, id)
    THEN Append(newlyUnlocked, id) ELSE newlyUnlocked

tryUnlock(unlocked, newlyUnlocked, cond, id) ==
    IF cond /\ ~Includes(unlocked, id) /\ ~Includes(newlyUnlocked, id)
    THEN Append(newlyUnlocked, id) ELSE newlyUnlocked

\* packPuzzleLists undefined is passed as the empty list of packs
checkAchievements(state, justCompleted, packPuzzleLists) ==
    LET unlocked == state.achievements
        done == state.completedPuzzles
        totalCorrect == Cardinality({id \in DOMAIN done : done[id].correct})
        allDone(pack) == \A i \in 1..Len(pack) :
                            pack[i] \in DOMAIN done /\ done[pack[i]].correct
        a1 == tryUnlock(unlocked, <<>>, justCompleted.correct /\ totalCorrect >= 1, "first-case")
        a2 == tryUnlock(unlocked, a1, justCompleted.correct /\ justCompleted.stars = 4, "mastermind")
        a3 == tryUnlock(unlocked, a2, justCompleted.correct /\ justCompleted.timeSeconds < 60, "speed-demon")
        a4 == tryUnlock(unlocked, a3, justCompleted.correct /\ justCompleted.cluesUsed = 3, "no-stone-unturned")
        a5 == tryUnlock(unlocked, a4, state.streak.current >= 7 \/ state.streak.max >= 7, "perfect-week")
        a6 == tryUnlock(unlocked, a5, totalCorrect >= 10, "veteran")
        a7 == tryUnlock(unlocked, a6, justCompleted.correct /\ (justCompleted.hintsUsed = 0
                                       \/ justCompleted.hintsUsed = Undefined), "hint-free")
        a8 == tryUnlock(unlocked, a7, justCompleted.correct /\ justCompleted.stars = 4
                                       /\ justCompleted.difficulty = 3, "hard-boiled")
        a9 == tryUnlock(unlocked, a8, state.streak.current >= 30 \/ state.streak.max >= 30, "streak-master")
    IN tryUnlock(unlocked, a9, \E k \in 1..Len(packPuzzleLists) : allDone(packPuzzleLists[k]),
                 "completionist")

(***************************************************************************)
(* Puzzle data served to the client                                        *)
(***************************************************************************)
DailyPuzzleId == "p1"
PracticePack == <<"p2">>
Culprit(p) == IF p = "p1" THEN "s3" ELSE "s1"
Difficulty(p) == IF p = "p1" THEN 3 ELSE 1
PuzzleClues == <<"c1", "c2", "c3">>
PuzzleHints == <<"h1">>
PuzzleSuspects == {"s1", "s3"}
TimeVals == {45, 75}

pvInitial ==
    [showOverlay |-> FALSE, fetchError |-> FALSE,
     isFetchingSolution |-> FALSE, verdictPending |-> FALSE]

canRevealClue == game.status = "playing" /\ Len(game.revealedClues) < MAX_CLUES
canRevealHint == game.status = "playing" /\ Len(game.revealedHints) < MAX_HINTS
canAccuse == game.status = "playing" /\ game.selectedSuspect # NULL
currentStars == MAX_CLUES + 1 - Len(game.revealedClues)

vars == <<game, player, daily, view, currentMode, loads, pv, inst, procs, now,
          sess, confirmed, terminalSess, completedBy, last,
          storage, timers, provider, call, streakDays, failedAttempt>>
appVars == <<daily, view, currentMode, loads>>
histVars == <<sess, confirmed, terminalSess, completedBy>>
persistVars == <<storage, timers, provider>>
obsVars == <<streakDays, failedAttempt>>
envVars == <<persistVars, call, obsVars>>

\* no timeout handle (saveTimerRef.current === null)
NoTimer == 0 - 1

\* PlayerProvider before its first render
providerInitial ==
    [mounted |-> FALSE, isInitialised |-> FALSE, saveTimerRef |-> NoTimer]

NoCall == [fn |-> "none"]

\* the client after construction, before any effect has run
InitClient ==
    /\ game = initialGameState
    /\ player = initialPlayerState
    /\ daily = "loading"
    /\ view = "home"
    /\ currentMode = "daily"
    /\ loads = <<>>
    /\ pv = pvInitial
    /\ inst = 0
    /\ procs = {}
    /\ sess = 0
    /\ confirmed = FALSE
    /\ terminalSess = {}
    /\ completedBy = <<>>
    /\ last = [type |-> "init", arg |-> NULL]
    /\ streakDays = {}
    /\ failedAttempt = <<>>

\* empty storage, no timeout pending, PlayerProvider not rendered yet
InitPersist ==
    /\ storage = <<>>
    /\ timers = {}
    /\ provider = providerInitial

Init ==
    /\ InitClient
    /\ now = 1
    /\ InitPersist
    /\ call = NoCall

Tick ==
    /\ now < MaxNow
    /\ now' = now + 1
    /\ last' = [type |-> "Tick", arg |-> NULL]
    /\ UNCHANGED <<envVars, game, player, appVars, pv, inst, procs, histVars>>

(***************************************************************************)
(* The session machine alone: every action of GameAction dispatched to the *)
(* reducer in any state.  Reveal actions carry either an id that is        *)
(* already revealed or the next unrevealed id in display order, whether or *)
(* not the cap is reached.                                                 *)
(***************************************************************************)
Dispatch(action, arg) ==
    /\ game' = gameReducer(game, action, now)
    /\ last' = [type |-> action.type, arg |-> arg, from |-> game.status]
    /\ UNCHANGED <<envVars, player, appVars, pv, inst, procs, now, histVars>>

DispatchStartPuzzle == \E p \in PuzzleIds : Dispatch(StartPuzzleAct(p, ModeOf(p)), p)
DispatchRevealClue ==
    \E c \in Range(ClueOrder) :
        /\ Includes(game.revealedClues, c) \/ c = nextUnrevealed(ClueOrder, game.revealedClues)
        /\ Dispatch(RevealClueAct(c), c)
DispatchRevealHint ==
    \E h \in Range(HintOrder) :
        /\ Includes(game.revealedHints, h) \/ h = nextUnrevealed(HintOrder, game.revealedHints)
        /\ Dispatch(RevealHintAct(h), h)
DispatchSelectSuspect == \E s \in Suspects : Dispatch(SelectSuspectAct(s), s)
DispatchExpandSuspect == \E s \in {"s1", NULL} : Dispatch(ExpandSuspectAct(s), s)
DispatchMakeAccusation == Dispatch(MakeAccusationAct, NULL)
DispatchSetSolution == \E s \in Suspects : Dispatch(SetSolutionAct(s), s)
DispatchReset == Dispatch(ResetAct, NULL)

NextSession ==
    \/ Tick
    \/ DispatchStartPuzzle
    \/ DispatchRevealClue
    \/ DispatchRevealHint
    \/ DispatchSelectSuspect
    \/ DispatchExpandSuspect
    \/ DispatchMakeAccusation
    \/ DispatchSetSolution
    \/ DispatchReset

SpecSession == Init /\ [][NextSession]_vars


(***************************************************************************)
(* The client: AppInner (puzzle loading, mode tabs), PuzzleView (the       *)
(* accusation protocol) and the two reducers.  PuzzleView is rendered      *)
(* while view = "playing" and the session holds a puzzle; rendering and    *)
(* the effects it triggers are part of the step that changed the state.    *)
(***************************************************************************)
Mounted == view = "playing" /\ game.puzzle # NULL
isGameOver == game.status = "solved" \/ game.status = "failed"
ResultScreen == Mounted /\ ~pv.verdictPending /\ isGameOver /\ game.solution # NULL
ActiveScreen == Mounted /\ ~pv.verdictPending /\ ~(isGameOver /\ game.solution # NULL)
OverlayShown == ActiveScreen /\ pv.showOverlay /\ game.selectedSuspect # NULL
ModeSelectorShown == daily # "loading" /\ ~OverlayShown

\* PuzzleView's effect on [puzzle.id]: startPuzzle(puzzle, mode) and the
\* reset of the local flags (isFetchingSolution is not among them)
mountEffectGame(g, t) == gameReducer(g, StartPuzzleAct(g.puzzle, g.mode), t)
mountEffectFlags(flags) ==
    [flags EXCEPT !.showOverlay = FALSE, !.fetchError = FALSE, !.verdictPending = FALSE]

\* React commits the render that follows a change of view and session:
\* g1 and v1 are the session and the view the handler produced
Render(g1, v1) ==
    LET mountedAfter == v1 = "playing" /\ g1.puzzle # NULL
    IN IF ~mountedAfter
       THEN /\ game' = g1 /\ pv' = pvInitial /\ inst' = inst
       ELSE IF ~Mounted
       THEN /\ game' = mountEffectGame(g1, now)
            /\ pv' = mountEffectFlags(pvInitial)
            /\ inst' = inst + 1
       ELSE IF g1.puzzleId # game.puzzleId
       THEN /\ game' = mountEffectGame(g1, now)
            /\ pv' = mountEffectFlags(pv)
            /\ inst' = inst
       ELSE /\ game' = g1 /\ pv' = pv /\ inst' = inst

NewSession ==
    /\ sess' = sess + 1
    /\ confirmed' = FALSE
    /\ UNCHANGED <<terminalSess, completedBy>>

\* loadPuzzle up to its await
loadPuzzle(puzzleId, mode, modeTab) ==
    /\ sess + Len(loads) < MaxSess
    /\ Len(loads) < MaxLoads
    /\ loads' = Append(loads, [id |-> puzzleId, mode |-> mode, supersededBy |-> NULL])
    /\ currentMode' = modeTab
    /\ view' = "loading"
    /\ Render(game, "loading")
    /\ UNCHANGED <<envVars, player, daily, procs, now, histVars>>

\* useDaily resolves and the auto-load effect of AppInner runs
DailyReady ==
    /\ daily = "loading"
    /\ daily' = "ready"
    /\ loads' = Append(loads, [id |-> DailyPuzzleId, mode |-> "daily", supersededBy |-> NULL])
    /\ view' = "loading"
    /\ last' = [type |-> "DailyReady", arg |-> NULL]
    /\ UNCHANGED <<envVars, game, player, currentMode, pv, inst, procs, now, histVars>>

handleSelectDaily ==
    /\ ModeSelectorShown
    /\ last' = [type |-> "handleSelectDaily", arg |-> NULL]
    /\ IF daily = "ready"
       THEN loadPuzzle(DailyPuzzleId, "daily", "daily")
       ELSE /\ currentMode' = "daily"
            /\ currentMode # "daily"
            /\ UNCHANGED <<envVars, game, player, daily, view, loads, pv, inst, procs, now, histVars>>

handleSelectPractice ==
    /\ ModeSelectorShown
    /\ sess + Len(loads) < MaxSess
    /\ currentMode' = "practice"
    /\ view' = "home"
    /\ Render(gameReducer(game, ResetAct, now), "home")
    /\ NewSession
    /\ last' = [type |-> "handleSelectPractice", arg |-> NULL]
    /\ UNCHANGED <<envVars, player, daily, loads, procs, now>>

handleSelectPracticePuzzle ==
    /\ view = "home" /\ currentMode = "practice"
    /\ \E i \in 1..Len(PracticePack) : loadPuzzle(PracticePack[i], "practice", "practice")
    /\ last' = [type |-> "handleSelectPracticePuzzle", arg |-> NULL]

onPlayAgain ==
    /\ ResultScreen /\ game.mode = "practice"
    /\ loadPuzzle(game.puzzleId, "practice", currentMode)
    /\ last' = [type |-> "onPlayAgain", arg |-> NULL]

RetryLoad ==
    /\ view = "error" /\ currentMode = "daily" /\ daily = "ready"
    /\ loadPuzzle(DailyPuzzleId, "daily", currentMode)
    /\ last' = [type |-> "RetryLoad", arg |-> NULL]

ErrorBack ==
    /\ view = "error"
    /\ currentMode' = "practice"
    /\ view' = "home"
    /\ Render(game, "home")
    /\ last' = [type |-> "ErrorBack", arg |-> NULL]
    /\ UNCHANGED <<envVars, player, daily, loads, procs, now, histVars>>

RemoveAt(seq, i) == SubSeq(seq, 1, i - 1) \o SubSeq(seq, i + 1, Len(seq))

\* the loads still in flight once load i has started its session: those
\* requested before it (loads is in request order) are marked with its puzzle
supersede(seq, i) ==
    [j \in 1..(Len(seq) - 1) |->
        IF j < i THEN [seq[j] EXCEPT !.supersededBy = seq[i].id] ELSE seq[j + 1]]

\* fetchPuzzle resolves: startPuzzle(puzzle, mode); setView('playing')
LoadResolve ==
    \E i \in 1..Len(loads) :
        /\ loads' = supersede(loads, i)
        /\ view' = "playing"
        /\ Render(gameReducer(game, StartPuzzleAct(loads[i].id, loads[i].mode), now), "playing")
        /\ NewSession
        /\ last' = [type |-> "LoadResolve", arg |-> loads[i].id,
                     supersededBy |-> loads[i].supersededBy]
        /\ UNCHANGED <<envVars, player, daily, currentMode, procs, now>>

\* a catch block that also resets the session
LoadFail_ResetsSession ==
    \E i \in 1..Len(loads) :
        /\ loads' = RemoveAt(loads, i)
        /\ view' = "error"
        /\ Render(gameReducer(game, ResetAct, now), "error")
        /\ last' = [type |-> "LoadFail", arg |-> loads[i].id]
        /\ UNCHANGED <<envVars, player, daily, currentMode, procs, now, histVars>>

\* fetchPuzzle rejects: setLoadError(...); setView('error')
LoadFail ==
    \E i \in 1..Len(loads) :
        /\ loads' = RemoveAt(loads, i)
        /\ view' = "error"
        /\ Render(game, "error")
        /\ last' = [type |-> "LoadFail", arg |-> loads[i].id]
        /\ UNCHANGED <<envVars, player, daily, currentMode, procs, now, histVars>>

\* ---- PuzzleView: handlers of the active game screen ----
PvDispatch(action) ==
    /\ game' = gameReducer(game, action, now)
    /\ UNCHANGED <<envVars, player, appVars, pv, inst, procs, now, histVars>>

handleSelectSuspect ==
    /\ ActiveScreen /\ ~OverlayShown /\ ~isGameOver
    /\ \E s \in PuzzleSuspects : PvDispatch(SelectSuspectAct(s))
    /\ last' = [type |-> "handleSelectSuspect", arg |-> NULL]

handleRevealClue ==
    /\ ActiveScreen /\ ~OverlayShown /\ canRevealClue
    /\ nextUnrevealed(PuzzleClues, game.revealedClues) # NULL
    /\ PvDispatch(RevealClueAct(nextUnrevealed(PuzzleClues, game.revealedClues)))
    /\ last' = [type |-> "handleRevealClue", arg |-> NULL]

handleRevealHint ==
    /\ ActiveScreen /\ ~OverlayShown /\ canRevealHint
    /\ nextUnrevealed(PuzzleHints, game.revealedHints) # NULL
    /\ PvDispatch(RevealHintAct(nextUnrevealed(PuzzleHints, game.revealedHints)))
    /\ last' = [type |-> "handleRevealHint", arg |-> NULL]

handleAccuseClick ==
    /\ ActiveScreen /\ ~pv.showOverlay
    /\ canAccuse /\ ~pv.isFetchingSolution
    /\ pv' = [pv EXCEPT !.showOverlay = TRUE]
    /\ last' = [type |-> "handleAccuseClick", arg |-> NULL]
    /\ UNCHANGED <<envVars, game, player, appVars, inst, procs, now, histVars>>

handleCancelAccusation ==
    /\ OverlayShown
    /\ pv' = [pv EXCEPT !.showOverlay = FALSE]
    /\ last' = [type |-> "handleCancelAccusation", arg |-> NULL]
    /\ UNCHANGED <<envVars, game, player, appVars, inst, procs, now, histVars>>

\* what the properties read of an invocation
ProcView(p) ==
    [sess |-> p.sess, inst |-> p.inst, puzzleId |-> p.puzzleId,
     capturedSuspect |-> p.capturedSuspect,
     capturedCluesUsed |-> p.capturedCluesUsed]

\* handleConfirmAccusation up to its await: the captured values and the
\* props and state of the render the callback closes over
captureAccusation(state, playerState) ==
    [sess |-> sess, inst |-> inst, phase |-> "fetch",
     puzzleId |-> state.puzzle, mode |-> state.mode,
     capturedSuspect |-> state.selectedSuspect,
     capturedCluesUsed |-> Len(state.revealedClues),
     hintsUsed |-> Len(state.revealedHints),
     playerState |-> playerState,
     solution |-> NULL]

handleConfirmAccusation(trigger) ==
    /\ Cardinality(procs) < MaxProcs
    /\ LET p == captureAccusation(game, player)
       IN /\ procs' = procs \cup {p}
          /\ last' = [type |-> trigger, arg |-> ProcView(p)]
    /\ pv' = [pv EXCEPT !.showOverlay = FALSE, !.isFetchingSolution = TRUE,
                        !.fetchError = FALSE]
    /\ confirmed' = TRUE
    /\ failedAttempt' = <<>>
    /\ UNCHANGED <<persistVars, call, streakDays, game, player, appVars, inst, now, sess,
                   terminalSess, completedBy>>

ConfirmAccusation == OverlayShown /\ handleConfirmAccusation("ConfirmAccusation")

RetryAccusation ==
    /\ ActiveScreen /\ ~OverlayShown /\ pv.fetchError
    /\ handleConfirmAccusation("RetryAccusation")

\* a state setter of PuzzleView called from an invocation acts only while
\* the instance that created the invocation is still mounted
Alive(p) == Mounted /\ p.inst = inst

\* fetchSolution resolves: setSolution(solution); the deliberation screen
afterFetchFlags(flags) ==
    [flags EXCEPT !.isFetchingSolution = FALSE, !.verdictPending = TRUE]

FetchResolve ==
    \E p \in procs :
        /\ p.phase = "fetch"
        /\ LET solution == Culprit(p.puzzleId)
           IN /\ game' = gameReducer(game, SetSolutionAct(solution), now)
              /\ procs' = (procs \ {p}) \cup {[p EXCEPT !.phase = "delay", !.solution = solution]}
        /\ pv' = IF Alive(p) THEN afterFetchFlags(pv) ELSE pv
        /\ last' = [type |-> "FetchResolve", arg |-> ProcView(p)]
        /\ UNCHANGED <<envVars, player, appVars, inst, now, histVars>>

\* a catch block that forgets the error flag
catchFetchError_NoFlag(flags) ==
    [flags EXCEPT !.isFetchingSolution = FALSE]

\* fetchSolution rejects: the catch block
catchFetchError(flags) ==
    [flags EXCEPT !.fetchError = TRUE, !.isFetchingSolution = FALSE]

FetchFail ==
    \E p \in procs :
        /\ p.phase = "fetch"
        /\ procs' = procs \ {p}
        /\ pv' = IF Alive(p) THEN catchFetchError(pv) ELSE pv
        /\ failedAttempt' = IF Alive(p)
                            THEN <<[capturedSuspect |-> p.capturedSuspect,
                                    capturedCluesUsed |-> p.capturedCluesUsed]>>
                            ELSE failedAttempt
        /\ last' = [type |-> "FetchFail", arg |-> ProcView(p)]
        /\ UNCHANGED <<persistVars, call, streakDays, game, player, appVars, inst, now,
                       histVars>>

\* an outcome that reads the live session instead of the captured count
accusationOutcome_LiveClues(p, timeSeconds) ==
    [id |-> p.puzzleId,
     correct |-> p.capturedSuspect = culprit(p.solution),
     cluesUsed |-> Len(game.revealedClues),
     timeSeconds |-> timeSeconds,
     stars |-> calculateStars(Len(game.revealedClues)),
     difficulty |-> Difficulty(p.puzzleId),
     hintsUsed |-> p.hintsUsed]

\* the values the deliberation callback computes from the captured ones
accusationOutcome(p, timeSeconds) ==
    [id |-> p.puzzleId,
     correct |-> p.capturedSuspect = culprit(p.solution),
     cluesUsed |-> p.capturedCluesUsed,
     timeSeconds |-> timeSeconds,
     stars |-> calculateStars(p.capturedCluesUsed),
     difficulty |-> Difficulty(p.puzzleId),
     hintsUsed |-> p.hintsUsed]

\* completePuzzle, updateStreak and unlockAchievements of the callback
recordOutcome(state, p, info, t) ==
    LET s1 == reduceCompletePuzzle(state, CompletePuzzleAct(info), t)
        s2 == IF p.mode = "daily" /\ info.correct THEN reduceUpdateStreak(s1, t) ELSE s1
        newAchievements == checkAchievements(p.playerState, info, <<>>)
    IN unlockAchievements(s2, newAchievements)

\* the deliberation timeout and its animation frame
Verdict ==
    \E p \in procs, timeSeconds \in TimeVals :
        /\ p.phase = "delay"
        /\ game' = gameReducer(game, MakeAccusationAct, now)
        /\ player' = recordOutcome(player, p, accusationOutcome(p, timeSeconds), now)
        /\ pv' = IF Alive(p) THEN [pv EXCEPT !.verdictPending = FALSE] ELSE pv
        /\ procs' = procs \ {p}
        /\ terminalSess' = IF game'.status \in {"solved", "failed"}
                           THEN terminalSess \cup {sess} ELSE terminalSess
        /\ completedBy' = Append(completedBy, p.sess)
        /\ streakDays' = IF p.mode = "daily" /\ accusationOutcome(p, timeSeconds).correct
                         THEN streakDays \cup {now} ELSE streakDays
        /\ last' = [type |-> "Verdict", arg |-> ProcView(p)]
        /\ UNCHANGED <<persistVars, call, failedAttempt, appVars, inst, now, sess, confirmed>>

Next ==
    \/ DailyReady
    \/ handleSelectDaily
    \/ handleSelectPractice
    \/ handleSelectPracticePuzzle
    \/ onPlayAgain
    \/ RetryLoad
    \/ ErrorBack
    \/ LoadResolve
    \/ LoadFail
    \/ handleSelectSuspect
    \/ handleRevealClue
    \/ handleRevealHint
    \/ handleAccuseClick
    \/ handleCancelAccusation
    \/ ConfirmAccusation
    \/ RetryAccusation
    \/ FetchResolve
    \/ FetchFail
    \/ Verdict

Spec == Init /\ [][Next]_vars

(***************************************************************************)
(* Properties of the accusation protocol                                   *)
(***************************************************************************)
CountBy(g) == Cardinality({i \in 1..Len(completedBy) : completedBy[i] = g})
RetryEnabled == ActiveScreen /\ ~OverlayShown /\ pv.fetchError

\* C1: a solution is attached to the session, or a solution fetch of the
\* session has been issued, only if the player confirmed an accusation since
\* the most recent START_PUZZLE or RESET.
C1_NoSolutionBeforeConfirm ==
    (game.solution # NULL \/ \E p \in procs : p.sess = sess) => confirmed

\* C2: when a fetch (or the delay after it) that was started in an earlier
\* session completes after a START_PUZZLE, it changes nothing in the new
\* session: no solution is attached and no verdict is made.
C2_StaleFetchIgnored ==
    [][(/\ last'.type \in {"FetchResolve", "Verdict"}
        /\ last'.arg.sess # sess
        /\ game.puzzle # NULL)
       => game' = game]_vars

\* C3: the verdict of a session is decided by the suspect captured when the
\* accusation was confirmed, whatever SELECT_SUSPECT did while the fetch was
\* pending.
C3_VerdictUsesCapturedSuspect ==
    [][(/\ last'.type = "Verdict"
        /\ last'.arg.sess = sess
        /\ game.status = "playing")
       => game'.status = (IF last'.arg.capturedSuspect = culprit(game.solution)
                          THEN "solved" ELSE "failed")]_vars

\* C4: the invocation captures the number of clues revealed when the
\* accusation is confirmed, and the Completion it records carries that
\* count and the stars of that count, whatever was revealed while the fetch
\* was pending; 2 clues give 2 stars, PERSISTENT.
C4_RecordedScoreIsCaptured ==
    [][/\ last'.type \in {"ConfirmAccusation", "RetryAccusation"}
          => last'.arg.capturedCluesUsed = Len(game.revealedClues)
       /\ last'.type = "Verdict"
          => LET c == player'.completedPuzzles[last'.arg.puzzleId]
             IN /\ c.cluesUsed = last'.arg.capturedCluesUsed
                /\ c.stars = calculateStars(c.cluesUsed)
                /\ c.cluesUsed = 2 => (c.stars = 2 /\ getRatingLabel(c.cluesUsed) = "PERSISTENT")]_vars

W_C4_ClueRevealedWhilePending ==
    /\ last.type = "Verdict"
    /\ last.arg.sess = sess
    /\ last.arg.capturedCluesUsed = 2
    /\ Len(game.revealedClues) = 3
    /\ game.status = "solved"
    /\ player.completedPuzzles[last.arg.puzzleId].cluesUsed = 2
    /\ player.completedPuzzles[last.arg.puzzleId].stars = 2

\* C5: every session that reached solved or failed has had exactly one
\* COMPLETE_PUZZLE dispatched for it, and no COMPLETE_PUZZLE is dispatched
\* for a session that did not reach solved or failed.
C5_OneCompletionPerTerminalSession ==
    \A g \in 1..sess :
        /\ g \in terminalSess => CountBy(g) = 1
        /\ CountBy(g) > 0 => g \in terminalSess

\* C6: a failed solution fetch changes neither the session nor the Player
\* Record (no Completion, no streak update); the view that issued it shows
\* the error flag, is no longer fetching, and offers the retry while the
\* session is playing.
C6_FetchFailureLeavesSession ==
    [][last'.type = "FetchFail"
       => /\ game' = game
          /\ player' = player
          /\ completedBy' = completedBy
          /\ (Mounted /\ last'.arg.inst = inst)
             => /\ pv'.fetchError
                /\ ~pv'.isFetchingSolution
                /\ game.status = "playing" => RetryEnabled']_vars

W_C6_FetchFailed ==
    /\ last.type = "FetchFail"
    /\ last.arg.sess = sess /\ last.arg.inst = inst
    /\ Mounted /\ RetryEnabled
    /\ game.status = "playing" /\ game.solution = NULL
    /\ game.selectedSuspect = last.arg.capturedSuspect
    /\ Len(game.revealedClues) = 2 /\ Len(game.revealedHints) = 1
    /\ DOMAIN player.completedPuzzles = {}

(***************************************************************************)
(* Properties of the session machine                                       *)
(***************************************************************************)
Terminal == {"solved", "failed"}
NoRepeat(seq) == \A i, j \in 1..Len(seq) : seq[i] = seq[j] => i = j
GameFields == DOMAIN initialGameState

\* C7: MAKE_ACCUSATION dispatched in status playing with a suspect selected
\* and a solution attached gives solved iff the selection is the culprit,
\* failed otherwise, stamps solvedAt with the current time and leaves every
\* other field as it was.
C7_MakeAccusationVerdict ==
    [][(/\ last'.type = "MAKE_ACCUSATION"
        /\ game.status = "playing"
        /\ game.selectedSuspect # NULL
        /\ game.solution # NULL)
       => (/\ game'.status = (IF game.selectedSuspect = culprit(game.solution)
                               THEN "solved" ELSE "failed")
           /\ game'.solvedAt = now
           /\ \A f \in GameFields \ {"status", "solvedAt"} : game'[f] = game[f])]_vars

W_C7_Failed ==
    /\ last.type = "MAKE_ACCUSATION"
    /\ game.puzzle # NULL
    /\ game.status = "failed"
    /\ game.selectedSuspect = "s3" /\ culprit(game.solution) = "s1"
    /\ game.solvedAt = now /\ now > game.startedAt
    /\ Len(game.revealedClues) = 2

\* C8: once the status is solved or failed, only START_PUZZLE or RESET
\* changes status, solvedAt, the revealed clues, the revealed hints or the
\* selected suspect; a repeated MAKE_ACCUSATION changes nothing.
C8_VerdictIrrevocable ==
    [][game.status \in Terminal
       => \/ last'.type \in {"START_PUZZLE", "RESET"}
          \/ /\ game'.status = game.status
             /\ game'.solvedAt = game.solvedAt
             /\ game'.revealedClues = game.revealedClues
             /\ game'.revealedHints = game.revealedHints
             /\ game'.selectedSuspect = game.selectedSuspect]_vars

W_C8_RepeatedAccusation ==
    /\ last.type = "MAKE_ACCUSATION"
    /\ game.status \in Terminal
    /\ game.solvedAt < now

\* C9: at most 3 revealed clues and 2 revealed hints, no id repeated; a
\* REVEAL_CLUE with a revealed id or with a 4th distinct id leaves the
\* revealed clues as they were.
C9_RevealCaps ==
    /\ [](/\ Len(game.revealedClues) <= 3 /\ NoRepeat(game.revealedClues)
          /\ Len(game.revealedHints) <= 2 /\ NoRepeat(game.revealedHints))
    /\ [][(/\ last'.type = "REVEAL_CLUE"
           /\ \/ Includes(game.revealedClues, last'.arg)
              \/ Len(game.revealedClues) = 3)
          => Len(game'.revealedClues) = Len(game.revealedClues)]_vars

W_C9_FourthClue ==
    /\ last.type = "REVEAL_CLUE"
    /\ game.status = "playing"
    /\ Len(game.revealedClues) = 3
    /\ ~Includes(game.revealedClues, last.arg)
    /\ Len(game.revealedHints) = 2

\* C10: REVEAL_CLUE, REVEAL_HINT and SELECT_SUSPECT outside status playing,
\* and MAKE_ACCUSATION without a selected suspect or without a solution,
\* return the state unchanged in every field.
C10_GuardViolationsAreNoOps ==
    [][(\/ /\ last'.type \in {"REVEAL_CLUE", "REVEAL_HINT", "SELECT_SUSPECT"}
           /\ game.status # "playing"
        \/ /\ last'.type = "MAKE_ACCUSATION"
           /\ (game.selectedSuspect = NULL \/ game.solution = NULL))
       => game' = game]_vars

W_C10_AccuseWithoutSolution ==
    /\ last.type = "MAKE_ACCUSATION"
    /\ game.status = "playing"
    /\ game.selectedSuspect # NULL
    /\ game.solution = NULL

\* C11: START_PUZZLE is accepted in every state, terminal ones included, and
\* yields status playing, the given puzzle and mode, no revealed clues or
\* hints, no selected suspect, no solution, no solved-at and no expanded
\* suspect.
C11_StartPuzzleResets ==
    [][last'.type = "START_PUZZLE"
       => /\ game'.status = "playing"
          /\ game'.puzzle = last'.arg /\ game'.puzzleId = last'.arg
          /\ game'.mode = ModeOf(last'.arg)
          /\ game'.revealedClues = <<>> /\ game'.revealedHints = <<>>
          /\ game'.selectedSuspect = NULL
          /\ game'.solution = NULL
          /\ game'.solvedAt = NullTime
          /\ game'.expandedSuspect = NULL]_vars

W_C11_StartFromFailed ==
    /\ last.type = "START_PUZZLE" /\ last.from = "failed"
    /\ game.status = "playing" /\ game.puzzle = "p2" /\ game.mode = "practice"
    /\ game.startedAt = MaxNow

(***************************************************************************)
(* The scoring rules applied to one input (lib/puzzleUtils)                *)
(***************************************************************************)
MaxCluesInput == 60
CluesInputs == (0 - MaxCluesInput)..MaxCluesInput

\* every variable that a pure function leaves alone
idleVars == <<game, player, appVars, pv, inst, procs, now, histVars, last, persistVars,
              obsVars>>
InitIdle == InitClient /\ now = 1 /\ InitPersist

InitScoring ==
    /\ InitIdle
    /\ call \in {[fn |-> "input", cluesUsed |-> c] : c \in CluesInputs}

ApplyScoring ==
    /\ call.fn = "input"
    /\ call' = [fn |-> "scoring", cluesUsed |-> call.cluesUsed,
                stars |-> calculateStars(call.cluesUsed),
                label |-> getRatingLabel(call.cluesUsed)]
    /\ UNCHANGED idleVars

NextScoring == ApplyScoring

SpecScoring == InitScoring /\ [][NextScoring]_vars

\* C12: stars and label of 0, 1, 2, 3 clues are (4, MASTERMIND),
\* (3, SHARP-EYED), (2, PERSISTENT), (1, THOROUGH), strictly decreasing, and
\* every other input gives (1, THOROUGH).
C12_ScoringTable ==
    call.fn = "scoring" =>
        LET c == call.cluesUsed
            r == <<call.stars, call.label>>
        IN /\ c = 0 => r = <<4, "MASTERMIND">>
           /\ c = 1 => r = <<3, "SHARP-EYED">>
           /\ c = 2 => r = <<2, "PERSISTENT">>
           /\ c = 3 => r = <<1, "THOROUGH">>
           /\ c \notin 0..3 => r = <<1, "THOROUGH">>
           /\ \A a, b \in 0..3 : a < b => calculateStars(a) > calculateStars(b)

W_C12_OutOfRange ==
    /\ call.fn = "scoring"
    /\ call.cluesUsed = 4
    /\ call.stars = 1 /\ call.label = "THOROUGH"

(***************************************************************************)
(* The daily selection (getDailyPuzzleIndex, useDaily).  Instants are in   *)
(* milliseconds counted from 2026-02-06T00:00:00Z, the day before EPOCH,   *)
(* the origin of the day clock as well; instants before that are negative. *)
(***************************************************************************)
MsPerDay == 86400000
EPOCH == 1 * MsPerDay

MaxPool == 7
MaxDaysAround == 3
DailyPoolIds == <<"d1", "d2", "d3", "d4", "d5", "d6", "d7", "d8", "d9">>
\* index.daily of a pool of n puzzles
DailyPool(n) == SubSeq(DailyPoolIds, 1, n)
InstantInputs ==
    {d * MsPerDay + ms : d \in (1 - MaxDaysAround)..(1 + MaxDaysAround),
                         ms \in {0, 1, MsPerDay \div 2, MsPerDay - 1}}

\* the JavaScript % operator: the result has the sign of the dividend
jsRem(a, n) == IF a >= 0 THEN a % n ELSE 0 - ((0 - a) % n)
\* Math.floor(a / b) for b > 0
floorDiv(a, b) == a \div b

\* the index without the second remainder
getDailyPuzzleIndex_SingleMod(poolSize, nowMs) ==
    jsRem(floorDiv(nowMs - EPOCH, MsPerDay), poolSize)

\* the index with the day count rounded to the nearest day
getDailyPuzzleIndex_Rounded(poolSize, nowMs) ==
    LET daysSinceEpoch == floorDiv(nowMs - EPOCH + MsPerDay \div 2, MsPerDay)
    IN jsRem(jsRem(daysSinceEpoch, poolSize) + poolSize, poolSize)

getDailyPuzzleIndex(poolSize, nowMs) ==
    LET daysSinceEpoch == floorDiv(nowMs - EPOCH, MsPerDay)
    IN jsRem(jsRem(daysSinceEpoch, poolSize) + poolSize, poolSize)

\* useDaily: pool[dayIndex] (undefined outside the pool)
dailyId(pool, dayIndex) ==
    IF dayIndex \in 0..(Len(pool) - 1) THEN pool[dayIndex + 1] ELSE "undefined"

\* the UTC calendar day of an instant, as a day number
utcDay(nowMs) == floorDiv(nowMs, MsPerDay)

\* a puzzle number that truncates toward zero
getDailyPuzzleNumber_Truncated(nowMs) ==
    (IF nowMs >= EPOCH THEN (nowMs - EPOCH) \div MsPerDay
     ELSE 0 - ((EPOCH - nowMs) \div MsPerDay)) + 1

getDailyPuzzleNumber(nowMs) == floorDiv(nowMs - EPOCH, MsPerDay) + 1

dailyCall(poolSize, nowMs, prev) ==
    LET dayIndex == getDailyPuzzleIndex(poolSize, nowMs)
    IN [fn |-> "dailyIndex", poolSize |-> poolSize, nowMs |-> nowMs,
        index |-> dayIndex, id |-> dailyId(DailyPool(poolSize), dayIndex),
        number |-> getDailyPuzzleNumber(nowMs),
        hasPrev |-> prev.hasPrev, prevMs |-> prev.nowMs, prevIndex |-> prev.index,
        prevNumber |-> prev.number]

InitDaily ==
    /\ InitIdle
    /\ call \in {[fn |-> "input", poolSize |-> n, nowMs |-> t] :
                    n \in 1..MaxPool, t \in InstantInputs}

\* useDaily on load: the index and the id for the pool and the instant
ApplyDaily ==
    /\ call.fn = "input"
    /\ call' = dailyCall(call.poolSize, call.nowMs,
                         [hasPrev |-> FALSE, nowMs |-> call.nowMs, index |-> 0, number |-> 0])
    /\ UNCHANGED idleVars

\* the app is loaded again later the same UTC day or the next one
ApplyDailyLater ==
    /\ call.fn = "dailyIndex"
    /\ \E t \in InstantInputs :
        /\ t > call.nowMs
        /\ utcDay(t) <= utcDay(call.nowMs) + 1
        /\ call' = dailyCall(call.poolSize, t,
                             [hasPrev |-> TRUE, nowMs |-> call.nowMs, index |-> call.index,
                              number |-> call.number])
    /\ UNCHANGED idleVars

NextDaily == ApplyDaily \/ ApplyDailyLater

SpecDaily == InitDaily /\ [][NextDaily]_vars

\* C13: for every pool size n >= 1 and every instant, before EPOCH too, the
\* daily index is the non-negative remainder of floor((now - EPOCH) / 86400000)
\* modulo n, so it lies in 0..n-1 and the id chosen is a member of the pool.
C13_DailyIndexInPool ==
    call.fn = "dailyIndex" =>
        /\ call.index = ((call.nowMs - EPOCH) \div 86400000) % call.poolSize
        /\ 0 <= call.index /\ call.index < call.poolSize
        /\ \E i \in 1..call.poolSize : DailyPool(call.poolSize)[i] = call.id

W_C13_BeforeEpoch ==
    /\ call.fn = "dailyIndex"
    /\ call.poolSize = 4
    /\ call.nowMs = 1 - 2 * MsPerDay
    /\ call.index = 1 /\ call.id = "d2"

\* C14: two instants of the same UTC day give the same index, the next UTC
\* day gives the index advanced by exactly 1 modulo the pool size, and a pool
\* of one puzzle always gives 0.
C14_DailyIndexPerDay ==
    call.fn = "dailyIndex" =>
        /\ call.poolSize = 1 => call.index = 0
        /\ call.hasPrev =>
            /\ utcDay(call.nowMs) = utcDay(call.prevMs) => call.index = call.prevIndex
            /\ utcDay(call.nowMs) = utcDay(call.prevMs) + 1
               => call.index = (call.prevIndex + 1) % call.poolSize

W_C14_WrapsAtMidnight ==
    /\ call.fn = "dailyIndex" /\ call.hasPrev
    /\ call.poolSize = 3
    /\ utcDay(call.nowMs) = utcDay(call.prevMs) + 1
    /\ call.prevIndex = 2 /\ call.index = 0

(***************************************************************************)
(* The Player Record reducer alone: every action a component can dispatch, *)
(* in any state, with the UTC day advancing between dispatches.            *)
(***************************************************************************)
MaxDay == 4

\* COMPLETE_PUZZLE arguments: with and without the optional difficulty and
\* hintsUsed
CompletionInputs ==
    {[correct |-> TRUE, cluesUsed |-> 0, timeSeconds |-> 45, stars |-> 4,
      difficulty |-> Undefined, hintsUsed |-> Undefined],
     [correct |-> FALSE, cluesUsed |-> 3, timeSeconds |-> 75, stars |-> 1,
      difficulty |-> 3, hintsUsed |-> 1]}
withId(info, id) ==
    [id |-> id, correct |-> info.correct, cluesUsed |-> info.cluesUsed,
     timeSeconds |-> info.timeSeconds, stars |-> info.stars,
     difficulty |-> info.difficulty, hintsUsed |-> info.hintsUsed]
UnlockInputs == {<<"first-case">>, <<"first-case", "mastermind">>}

NextDay ==
    /\ now < MaxDay
    /\ now' = now + 1
    /\ last' = [type |-> "NextDay", arg |-> NULL]
    /\ UNCHANGED <<envVars, game, player, appVars, pv, inst, procs, histVars>>

\* from is what the dispatch found: the streak, or the entry of the id
PlayerDispatch(action, arg, from) ==
    /\ player' = playerReducer(player, action, now)
    /\ last' = [type |-> action.type, arg |-> arg, from |-> from]
    /\ streakDays' = IF action.type = "UPDATE_STREAK" THEN streakDays \cup {now}
                     ELSE streakDays
    /\ UNCHANGED <<persistVars, call, failedAttempt, game, appVars, pv, inst, procs, now,
                   histVars>>

entryOf(state, id) ==
    IF id \in DOMAIN state.completedPuzzles THEN <<state.completedPuzzles[id]>> ELSE <<>>

DispatchCompletePuzzle ==
    \E id \in PuzzleIds, info \in CompletionInputs :
        PlayerDispatch(CompletePuzzleAct(withId(info, id)), withId(info, id), entryOf(player, id))
DispatchUnlockAchievements ==
    \E ids \in UnlockInputs : PlayerDispatch(UnlockAchievementsAct(ids), ids, NULL)
DispatchUpdateStreak == PlayerDispatch(UpdateStreakAct, NULL, player.streak)
DispatchToggleReduceMotion == PlayerDispatch(ToggleReduceMotionAct, NULL, NULL)
DispatchDismissTutorial == PlayerDispatch(DismissTutorialAct, NULL, NULL)

NextPlayer ==
    \/ NextDay
    \/ DispatchCompletePuzzle
    \/ DispatchUnlockAchievements
    \/ DispatchUpdateStreak
    \/ DispatchToggleReduceMotion
    \/ DispatchDismissTutorial

SpecPlayer == Init /\ [][NextPlayer]_vars

(***************************************************************************)
(* Properties of the Player Record reducer                                 *)
(***************************************************************************)
freshStreak == [current |-> 0, max |-> 0, lastDailyDate |-> ""]

\* C15: UPDATE_STREAK on a day whose date key is already lastDailyDate
\* returns the record unchanged; on a fresh streak it gives current 1, so
\* COMPLETE_PUZZLE then UPDATE_STREAK twice the same day leaves current at 1.
C15_SameDayUpdateIsNoOp ==
    [][last'.type = "UPDATE_STREAK"
       => /\ player.streak.lastDailyDate = DateKeys[now + 1] => player' = player
          /\ player.streak = freshStreak => player'.streak.current = 1]_vars

W_C15_SecondUpdateSameDay ==
    /\ last.type = "UPDATE_STREAK"
    /\ last.from = [current |-> 1, max |-> 1, lastDailyDate |-> DateKeys[now + 1]]
    /\ player.streak.current = 1
    /\ "p1" \in DOMAIN player.completedPuzzles
    /\ player.completedPuzzles["p1"].correct /\ player.completedPuzzles["p1"].stars = 4
    /\ player.completedPuzzles["p1"].solvedAt = now

\* C16: UPDATE_STREAK on day d increments current when lastDailyDate is day
\* d-1 and sets it to 1 when lastDailyDate is empty or a day before d-1; in
\* both cases lastDailyDate becomes d and max the larger of the old max and
\* the new current.
C16_StreakIncrementOrReset ==
    [][last'.type = "UPDATE_STREAK"
       => LET old == player.streak
              new == player'.streak
              consecutive == old.lastDailyDate = DateKeys[now]
              gap == old.lastDailyDate = "" \/ \E k \in 1..(now - 1) : old.lastDailyDate = DateKeys[k]
          IN /\ consecutive => new.current = old.current + 1
             /\ gap => new.current = 1
             /\ (consecutive \/ gap)
                => /\ new.lastDailyDate = DateKeys[now + 1]
                   /\ new.max = (IF old.max >= new.current THEN old.max ELSE new.current)]_vars

W_C16_ResetAfterGap ==
    /\ last.type = "UPDATE_STREAK"
    /\ now = 4
    /\ last.from = [current |-> 2, max |-> 2, lastDailyDate |-> DateKeys[now - 1]]
    /\ player.streak = [current |-> 1, max |-> 2, lastDailyDate |-> DateKeys[now + 1]]

\* C18: COMPLETE_PUZZLE for an id replaces the entry of that id by the new
\* values, whether or not the id was present, and keeps the other entries;
\* none of COMPLETE_PUZZLE, UPDATE_STREAK, UNLOCK_ACHIEVEMENTS,
\* TOGGLE_REDUCE_MOTION, DISMISS_TUTORIAL removes an id.
C18_CompletionOverwrites ==
    [][/\ last'.type = "COMPLETE_PUZZLE"
          => LET a == last'.arg
                 done == player'.completedPuzzles
             IN /\ DOMAIN done = (DOMAIN player.completedPuzzles) \cup {a.id}
                /\ done[a.id] = [solvedAt |-> now, correct |-> a.correct,
                                 cluesUsed |-> a.cluesUsed, timeSeconds |-> a.timeSeconds,
                                 stars |-> a.stars, difficulty |-> a.difficulty,
                                 hintsUsed |-> a.hintsUsed]
                /\ \A id \in DOMAIN player.completedPuzzles :
                      id # a.id => done[id] = player.completedPuzzles[id]
       /\ last'.type \in {"COMPLETE_PUZZLE", "UPDATE_STREAK", "UNLOCK_ACHIEVEMENTS",
                          "TOGGLE_REDUCE_MOTION", "DISMISS_TUTORIAL"}
          => DOMAIN player.completedPuzzles \subseteq DOMAIN player'.completedPuzzles]_vars

W_C18_Overwritten ==
    /\ last.type = "COMPLETE_PUZZLE" /\ last.arg.id = "p1"
    /\ Len(last.from) = 1
    /\ ~last.from[1].correct /\ last.from[1].hintsUsed = 1 /\ last.from[1].solvedAt = 1
    /\ player.completedPuzzles["p1"].correct
    /\ player.completedPuzzles["p1"].hintsUsed = Undefined
    /\ player.completedPuzzles["p1"].solvedAt = 2
    /\ DOMAIN player.completedPuzzles = {"p1", "p2"}

(***************************************************************************)
(* PlayerProvider: the load on mount and the debounced save.  storage      *)
(* holds the stored text as the JSON value it denotes.  A browser timeout  *)
(* is [id, state]: its handle and the state its callback closes over.      *)
(* A render that follows a dispatch, the cleanup of the previous effect    *)
(* and the new effect are part of the step that dispatched.                *)
(***************************************************************************)
OptionalFields == {"difficulty", "hintsUsed"}

\* JSON.stringify omits the properties whose value is undefined
stringifyCompletion(c) ==
    [f \in {g \in DOMAIN c : g \notin OptionalFields \/ c[g] # Undefined} |-> c[f]]
stringify(state) ==
    [state EXCEPT !.completedPuzzles =
        [id \in DOMAIN state.completedPuzzles |->
            stringifyCompletion(state.completedPuzzles[id])]]

\* Stored texts that are no object: a text JSON.parse rejects and a JSON text
\* that denotes null, a number or a string are records with one reserved
\* key.  A JSON object or array is the record of its own keys.
SyntaxErrorText(text) == [k \in {"#SyntaxError"} |-> text]
jsonPrimitive(v) == [k \in {"#primitive"} |-> v]
parseThrows(text) == "#SyntaxError" \in DOMAIN text
\* typeof parsed === 'object' && parsed !== null
isNonNullObject(parsed) == "#primitive" \notin DOMAIN parsed

\* a loader that takes any object for a player state
loadFromStorage_AnyObject(stored) ==
    IF stored = <<>> THEN <<>>
    ELSE IF parseThrows(stored[1]) THEN <<>>
    ELSE IF isNonNullObject(stored[1]) THEN <<stored[1]>> ELSE <<>>

\* <<>> for null, else <<the parsed state>>
loadFromStorage(stored) ==
    IF stored = <<>> THEN <<>>
    ELSE IF parseThrows(stored[1]) THEN <<>>
    ELSE LET parsed == stored[1]
         IN IF /\ isNonNullObject(parsed)
               /\ {"completedPuzzles", "streak", "settings"} \subseteq DOMAIN parsed
            THEN <<parsed>> ELSE <<>>

saveToStorage(state) == <<stringify(state)>>

\* a clearTimeout that cancels nothing
clearTimeout_Noop(pending, id) == pending

clearTimeout(pending, id) == {t \in pending : t.id # id}

\* the handle setTimeout returns: one that no pending timeout and no ref holds
newTimerId(pending, ref) ==
    CHOOSE id \in 1..(Cardinality(pending) + 2) :
        /\ id # ref
        /\ \A t \in pending : t.id # id
        /\ \A j \in 1..(id - 1) : j = ref \/ \E t \in pending : t.id = j

\* the cleanup of the save effect; pr is [timers, ref]
saveEffectCleanup(pr) ==
    IF pr.ref # NoTimer THEN [pr EXCEPT !.timers = clearTimeout(pr.timers, pr.ref)] ELSE pr

\* the save effect of a render with this state
saveEffect(pr, isInitialised, state) ==
    IF ~isInitialised THEN pr
    ELSE LET cleared == IF pr.ref # NoTimer THEN clearTimeout(pr.timers, pr.ref)
                        ELSE pr.timers
             id == newTimerId(cleared, pr.ref)
         IN [timers |-> cleared \cup {[id |-> id, state |-> state]}, ref |-> id]

\* a re-render whose effect does not run
rerender_NoReschedule(pr, isInitialised, state) == pr

\* a re-render that schedules the new save and cancels nothing
rerender_KeepsPending(pr, isInitialised, state) ==
    LET id == newTimerId(pr.timers, pr.ref)
    IN [timers |-> pr.timers \cup {[id |-> id, state |-> state]}, ref |-> id]

\* a re-render with a new state object: cleanup, then the effect
rerender(pr, isInitialised, state) ==
    saveEffect(saveEffectCleanup(pr), isInitialised, state)

\* the reducer returns the state object it was given (React skips the render)
returnsSameState(state, action, t) ==
    CASE action.type = "UNLOCK_ACHIEVEMENTS" ->
            \A i \in 1..Len(action.ids) : Includes(state.achievements, action.ids[i])
      [] action.type = "UPDATE_STREAK" -> state.streak.lastDailyDate = getTodayUTC(t)
      [] OTHER -> FALSE

\* first render and both mount effects, then the render LOAD_STATE causes
Mount ==
    /\ ~provider.mounted
    /\ LET stored == loadFromStorage(storage)
           first == saveEffect([timers |-> timers, ref |-> NoTimer], TRUE, initialPlayerState)
           loaded == playerReducer(initialPlayerState, LoadStateAct(stored[1]), now)
           pr == IF stored # <<>> THEN rerender(first, TRUE, loaded) ELSE first
       IN /\ player' = IF stored # <<>> THEN loaded ELSE initialPlayerState
          /\ timers' = pr.timers
          /\ provider' = [mounted |-> TRUE, isInitialised |-> TRUE, saveTimerRef |-> pr.ref]
    /\ last' = [type |-> "Mount",
                arg |-> IF loadFromStorage(storage) # <<>> THEN "LOAD_STATE" ELSE NULL]
    /\ UNCHANGED <<storage, call, obsVars, game, appVars, pv, inst, procs, now, histVars>>

\* a callback of the context value dispatches while the provider is mounted
ProviderDispatch(action) ==
    /\ provider.mounted
    /\ player' = playerReducer(player, action, now)
    /\ LET pr == IF returnsSameState(player, action, now)
                 THEN [timers |-> timers, ref |-> provider.saveTimerRef]
                 ELSE rerender([timers |-> timers, ref |-> provider.saveTimerRef],
                               provider.isInitialised, player')
       IN /\ timers' = pr.timers
          /\ provider' = [provider EXCEPT !.saveTimerRef = pr.ref]
    /\ last' = [type |-> action.type, arg |-> NULL]
    /\ streakDays' = IF action.type = "UPDATE_STREAK" THEN streakDays \cup {now}
                     ELSE streakDays
    /\ UNCHANGED <<storage, call, failedAttempt, game, appVars, pv, inst, procs, now,
                   histVars>>

completePuzzle ==
    ProviderDispatch(CompletePuzzleAct(
        [id |-> "p1", correct |-> TRUE, cluesUsed |-> 0, timeSeconds |-> 45,
         stars |-> 4, difficulty |-> Undefined, hintsUsed |-> Undefined]))
updateStreak == ProviderDispatch(UpdateStreakAct)
toggleReduceMotion == ProviderDispatch(ToggleReduceMotionAct)
dismissTutorial == ProviderDispatch(DismissTutorialAct)
\* unlockAchievements(ids) with a non-empty list
unlockAchievementsCall == ProviderDispatch(UnlockAchievementsAct(<<"first-case">>))

\* the timeout callback: saveToStorage(state); saveTimerRef.current = null
SaveTimerFires ==
    \E t \in timers :
        /\ storage' = saveToStorage(t.state)
        /\ timers' = timers \ {t}
        /\ provider' = [provider EXCEPT !.saveTimerRef = NoTimer]
        /\ last' = [type |-> "SaveTimerFires", arg |-> storage]
        /\ UNCHANGED <<player, call, obsVars, game, appVars, pv, inst, procs, now, histVars>>

\* the provider unmounts: the cleanup of the save effect runs and the
\* reducer state and the refs go with the instance
Teardown ==
    /\ provider.mounted
    /\ timers' = saveEffectCleanup([timers |-> timers, ref |-> provider.saveTimerRef]).timers
    /\ provider' = providerInitial
    /\ player' = initialPlayerState
    /\ last' = [type |-> "Teardown", arg |-> NULL]
    /\ UNCHANGED <<storage, call, obsVars, game, appVars, pv, inst, procs, now, histVars>>

NextPersist ==
    \/ Mount
    \/ completePuzzle
    \/ updateStreak
    \/ toggleReduceMotion
    \/ dismissTutorial
    \/ unlockAchievementsCall
    \/ SaveTimerFires
    \/ Teardown
    \/ NextDay

SpecPersist == Init /\ [][NextPersist]_vars

(***************************************************************************)
(* Properties of the Player Record under PlayerProvider                    *)
(***************************************************************************)
\* C17: in every state of the Player Record, fresh or loaded from a
\* snapshot the provider wrote, streak.current <= streak.max, and no
\* transition of the record lowers streak.max.  (A teardown ends the record;
\* the next mount starts a fresh one.)
C17_StreakBounds ==
    /\ [](player.streak.current <= player.streak.max)
    /\ [][last'.type # "Teardown" => player'.streak.max >= player.streak.max]_vars

W_C17_LoadedSnapshot ==
    /\ last.type = "Mount"
    /\ storage # <<>>
    /\ player.streak.current = 1 /\ player.streak.max = 2

\* C19: at most one save timeout is pending; a state change leaves exactly
\* one pending timeout, a new one, for the new state; storage is written
\* only when the timeout fires, with the state after the last change, and
\* nothing stays pending after the write.
C19_DebounceCoalesces ==
    /\ [](Cardinality(timers) <= 1)
    /\ [][/\ (provider'.mounted /\ player' # player)
             => /\ \E t \in timers' : timers' = {t} /\ t.state = player'
                /\ timers' \cap timers = {}
          /\ storage' # storage => last'.type = "SaveTimerFires"
          /\ last'.type = "SaveTimerFires"
             => /\ storage' = <<stringify(player)>>
                /\ timers' = {}]_vars

W_C19_BurstWrittenOnce ==
    /\ last.type = "SaveTimerFires"
    /\ last.arg = <<>>
    /\ storage # <<>>
    /\ storage[1].settings.reduceMotion /\ storage[1].hasSeenTutorial
    /\ DOMAIN storage[1].completedPuzzles = {"p1"}
    /\ DOMAIN storage[1].completedPuzzles["p1"] \cap OptionalFields = {}
    /\ timers = {}

\* C20: when the provider is torn down while a save timeout is pending, the
\* write of a changed record is not lost: the timeout stays pending or
\* storage holds the state of the record.
C20_TeardownKeepsPendingWrite ==
    [][(last'.type = "Teardown" /\ timers # {} /\ player # initialPlayerState)
       => \/ storage' = <<stringify(player)>>
          \/ \E t \in timers' : t.state = player]_vars

(***************************************************************************)
(* PlayerProvider over a storage that holds any text when the page loads   *)
(* and whose writes can throw (quota exceeded, storage disabled).          *)
(***************************************************************************)
\* a snapshot written before hasSeenTutorial and achievements existed
SnapshotV1 ==
    [completedPuzzles |-> initialPlayerState.completedPuzzles,
     streak |-> [current |-> 1, max |-> 2, lastDailyDate |-> DateKeys[1]],
     settings |-> [reduceMotion |-> TRUE]]
\* a snapshot written before achievements existed
SnapshotV2 ==
    [f \in DOMAIN SnapshotV1 \cup {"hasSeenTutorial"} |->
        IF f = "hasSeenTutorial" THEN TRUE ELSE SnapshotV1[f]]
\* a snapshot of the current version
SnapshotV3 ==
    [f \in DOMAIN SnapshotV2 \cup {"achievements"} |->
        IF f = "achievements" THEN <<"first-case">> ELSE SnapshotV2[f]]
without(rec, key) == [f \in DOMAIN rec \ {key} |-> rec[f]]

\* what localStorage can hold under STORAGE_KEY when the page loads
StoredInputs ==
    {<<>>,
     <<SyntaxErrorText("{oops")>>,
     <<jsonPrimitive("null")>>,
     <<jsonPrimitive("42")>>,
     <<[k \in {"0"} |-> "x"]>>,
     <<without(SnapshotV3, "completedPuzzles")>>,
     <<without(SnapshotV3, "streak")>>,
     <<without(SnapshotV3, "settings")>>,
     <<SnapshotV1>>, <<SnapshotV2>>, <<SnapshotV3>>}

InitStorage ==
    /\ InitClient
    /\ now = 1
    /\ storage \in StoredInputs
    /\ timers = {}
    /\ provider = providerInitial
    /\ call = NoCall

\* a saveToStorage without the catch: the callback ends at the throw
SaveTimerThrows_Uncaught ==
    \E t \in timers :
        /\ timers' = timers \ {t}
        /\ last' = [type |-> "SaveTimerThrows", arg |-> storage]
        /\ UNCHANGED <<storage, provider, player, call, obsVars, game, appVars, pv, inst,
                       procs, now, histVars>>

\* the timeout callback when setItem throws: saveToStorage catches the
\* error, then saveTimerRef.current = null
SaveTimerThrows ==
    \E t \in timers :
        /\ timers' = timers \ {t}
        /\ provider' = [provider EXCEPT !.saveTimerRef = NoTimer]
        /\ last' = [type |-> "SaveTimerThrows", arg |-> storage]
        /\ UNCHANGED <<storage, player, call, obsVars, game, appVars, pv, inst, procs, now,
                       histVars>>

NextStorage ==
    \/ Mount
    \/ toggleReduceMotion
    \/ dismissTutorial
    \/ SaveTimerFires
    \/ SaveTimerThrows
    \/ Teardown

SpecStorage == InitStorage /\ [][NextStorage]_vars

\* C21: on the load at mount, a stored value that is absent, is no JSON
\* text, denotes no object (null, a number, an array without the keys) or
\* is an object lacking one of completedPuzzles, streak, settings is
\* ignored: LOAD_STATE is not dispatched, the record is the fresh default,
\* storage is left as it was and the provider finishes its mount.
C21_InvalidStoredValueIgnored ==
    [][(/\ last'.type = "Mount"
        /\ \/ storage = <<>>
           \/ storage # <<>>
              /\ \/ "#SyntaxError" \in DOMAIN storage[1]
                 \/ "#primitive" \in DOMAIN storage[1]
                 \/ \E k \in {"completedPuzzles", "streak", "settings"} :
                       k \notin DOMAIN storage[1])
       => /\ last'.arg = NULL
          /\ player' = initialPlayerState
          /\ storage' = storage
          /\ provider'.mounted /\ provider'.isInitialised]_vars

W_C21_KeyMissing ==
    /\ last.type = "Mount" /\ last.arg = NULL
    /\ storage = <<without(SnapshotV3, "streak")>>
    /\ player = initialPlayerState
    /\ provider.mounted

\* C27: LOAD_STATE makes the record the snapshot merged over the defaults:
\* every field of the snapshot has the snapshot's value, every field of the
\* Player Record the snapshot lacks (achievements, hasSeenTutorial) has its
\* default value, and every field of the Player Record is defined.
C27_LoadStateMergesOverDefaults ==
    [][(last'.type = "Mount" /\ last'.arg = "LOAD_STATE")
       => LET snapshot == storage[1]
          IN /\ DOMAIN player' = DOMAIN initialPlayerState \cup DOMAIN snapshot
             /\ \A f \in DOMAIN snapshot : player'[f] = snapshot[f]
             /\ \A f \in DOMAIN initialPlayerState \ DOMAIN snapshot :
                   player'[f] = initialPlayerState[f]]_vars

W_C27_OldSnapshotLoaded ==
    /\ last.type = "Mount" /\ last.arg = "LOAD_STATE"
    /\ storage = <<SnapshotV1>>
    /\ player.streak = [current |-> 1, max |-> 2, lastDailyDate |-> DateKeys[1]]
    /\ player.settings.reduceMotion
    /\ player.achievements = <<>> /\ ~player.hasSeenTutorial

\* C29: a storage write that fails is swallowed: the timeout callback runs
\* to its end (the timer ref is cleared), the in-memory record and storage
\* are as before; every write that succeeds, hence the next one after a
\* failure, stores the in-memory record of that moment.
C29_FailedWriteIsSwallowed ==
    [][/\ last'.type = "SaveTimerThrows"
          => /\ player' = player
             /\ storage' = storage
             /\ provider' = [provider EXCEPT !.saveTimerRef = NoTimer]
       /\ last'.type = "SaveTimerFires"
          => storage' = <<stringify(player)>>]_vars

\* the write of a changed record has just failed
W_C29_WriteFailed ==
    /\ last.type = "SaveTimerThrows"
    /\ last.arg = <<SnapshotV2>> /\ storage = <<SnapshotV2>>
    /\ provider.mounted /\ provider.saveTimerRef = NoTimer /\ timers = {}
    /\ player.achievements = <<>> /\ player.hasSeenTutorial
    /\ ~player.settings.reduceMotion

(***************************************************************************)
(* Liveness of the save.  Every write succeeds.  The browser runs the      *)
(* callback of a timeout that stays pending: weak fairness for each        *)
(* timeout handle.  A handle that is cleared is no longer enabled, so a    *)
(* record that keeps changing can postpone the write for ever.             *)
(***************************************************************************)
TimerIds == 1..3
\* the timeout with this handle fires
FireTimer(id) ==
    /\ \E t \in timers : t.id = id
    /\ SaveTimerFires
    /\ \A t \in timers' : t.id # id

NextStorageOk ==
    \/ Mount
    \/ toggleReduceMotion
    \/ dismissTutorial
    \/ SaveTimerFires
    \/ Teardown

SpecStorageLive ==
    /\ InitStorage
    /\ [][NextStorageOk]_vars
    /\ \A id \in TimerIds : WF_vars(FireTimer(id))

\* C28: if from some point on the provider stays mounted and the record is
\* no longer changed (the only steps left are save timeouts firing), then
\* storage eventually holds the text of the in-memory record and keeps it.
C28_SaveEventuallyCatchesUp ==
    (/\ <>[](provider.mounted)
     /\ <>[][last'.type = "SaveTimerFires"]_vars)
    => <>[](storage = <<stringify(player)>>)

W_C28_ChangeSaved ==
    /\ last.type = "SaveTimerFires"
    /\ last.arg = <<SnapshotV1>>
    /\ provider.mounted /\ timers = {}
    /\ player.hasSeenTutorial /\ ~player.settings.reduceMotion
    /\ storage = <<stringify(player)>>

(***************************************************************************)
(* Properties of the streak and the achievements under the client          *)
(***************************************************************************)
\* C22: the streak changes only in a step that records a correct completion
\* of the daily puzzle; a verdict that leaves the session failed and a
\* verdict on a practice puzzle leave streak.current, streak.max and
\* streak.lastDailyDate as they were.
C22_StreakOnlyOnCorrectDaily ==
    [][/\ player'.streak # player.streak
          => /\ last'.type = "Verdict"
             /\ ModeOf(last'.arg.puzzleId) = "daily"
             /\ player'.completedPuzzles[last'.arg.puzzleId].correct
       /\ (/\ last'.type = "Verdict"
           /\ \/ game.status = "playing" /\ game'.status = "failed"
              \/ ModeOf(last'.arg.puzzleId) = "practice")
          => player'.streak = player.streak]_vars

\* the number of correct entries of a record
totalCorrectOf(state) ==
    Cardinality({id \in DOMAIN state.completedPuzzles : state.completedPuzzles[id].correct})

\* C23: the achievement evaluation of a verdict counts the completion the
\* verdict records: the first correct completion of a record unlocks
\* 'first-case' in the same step, and the completion that brings the number
\* of correct entries to 10 unlocks 'veteran' in the same step.
C23_AchievementsCountJustCompleted ==
    [][(last'.type = "Verdict" /\ player'.completedPuzzles[last'.arg.puzzleId].correct)
       => /\ totalCorrectOf(player) = 0 => Includes(player'.achievements, "first-case")
          /\ (totalCorrectOf(player) = 9 /\ totalCorrectOf(player') = 10)
             => Includes(player'.achievements, "veteran")]_vars

(***************************************************************************)
(* checkAchievements as a function: records with and without earlier       *)
(* achievements and correct entries, and every kind of completion event    *)
(***************************************************************************)
AchievementStateInputs ==
    {[initialPlayerState EXCEPT !.achievements = a, !.completedPuzzles = done, !.streak = st] :
        a \in {<<>>, <<"mastermind">>, <<"first-case">>, <<"first-case", "mastermind">>},
        done \in {initialPlayerState.completedPuzzles,
                  [id \in {"p2"} |-> [solvedAt |-> 0, correct |-> TRUE, cluesUsed |-> 1,
                                      timeSeconds |-> 75, stars |-> 3]]},
        st \in {initialPlayerState.streak,
                [current |-> 1, max |-> 7, lastDailyDate |-> DateKeys[1]]}}
CompletionInfoInputs ==
    [correct : BOOLEAN, cluesUsed : {0, 3}, timeSeconds : TimeVals, stars : 1..4,
     difficulty : {1, 3}, hintsUsed : {0, 1}]

InitAchievements ==
    /\ InitIdle
    /\ call \in {[fn |-> "input", state |-> st, justCompleted |-> j] :
                    st \in AchievementStateInputs, j \in CompletionInfoInputs}

ApplyAchievements ==
    /\ call.fn = "input"
    /\ call' = [fn |-> "checkAchievements", state |-> call.state,
                justCompleted |-> call.justCompleted,
                result |-> checkAchievements(call.state, call.justCompleted, <<PracticePack>>)]
    /\ UNCHANGED idleVars

NextAchievements == ApplyAchievements

SpecAchievements == InitAchievements /\ [][NextAchievements]_vars

\* C24: checkAchievements returns 'mastermind' exactly when the completion
\* event is correct with 4 stars and 'mastermind' is not unlocked yet: not
\* with 3 stars, not for an incorrect completion, not a second time.
C24_MastermindIff ==
    call.fn = "checkAchievements"
    => (Includes(call.result, "mastermind")
        <=> /\ call.justCompleted.correct
            /\ call.justCompleted.stars = 4
            /\ \A i \in 1..Len(call.state.achievements) :
                  call.state.achievements[i] # "mastermind")

W_C24_FourStars ==
    /\ call.fn = "checkAchievements"
    /\ call.justCompleted.correct /\ call.justCompleted.stars = 4
    /\ call.justCompleted.cluesUsed = 3
    /\ call.state.achievements = <<"first-case">>
    /\ Includes(call.result, "mastermind")

\* C31: checkAchievements returns no id that the record's achievements
\* already hold and no id twice, and its result is determined by the
\* record, the event and the pack lists.
C31_OnlyNewIdsOnce ==
    call.fn = "checkAchievements"
    => /\ \A i \in 1..Len(call.result) :
             \A j \in 1..Len(call.state.achievements) :
                call.result[i] # call.state.achievements[j]
       /\ \A i, j \in 1..Len(call.result) : call.result[i] = call.result[j] => i = j
       /\ call.result = checkAchievements(call.state, call.justCompleted, <<PracticePack>>)

W_C31_SomeAlreadyUnlocked ==
    /\ call.fn = "checkAchievements"
    /\ call.state.achievements = <<"first-case", "mastermind">>
    /\ DOMAIN call.state.completedPuzzles = {"p2"}
    /\ call.justCompleted.correct /\ call.justCompleted.stars = 4
    /\ call.justCompleted.timeSeconds = 45
    /\ Includes(call.result, "speed-demon") /\ Includes(call.result, "completionist")
    /\ ~Includes(call.result, "mastermind") /\ ~Includes(call.result, "first-case")

(***************************************************************************)
(* Further properties of the session machine                               *)
(***************************************************************************)
\* C32: in every session state currentStars is 4 minus the number of
\* revealed clues, equals calculateStars of that number and lies in 1..4;
\* it drops by exactly 1 on each REVEAL_CLUE that is accepted and is not
\* changed by REVEAL_HINT.
C32_CurrentStars ==
    /\ [](/\ currentStars = 4 - Len(game.revealedClues)
          /\ currentStars = calculateStars(Len(game.revealedClues))
          /\ currentStars \in 1..4)
    /\ [][/\ (last'.type = "REVEAL_CLUE" /\ game'.revealedClues # game.revealedClues)
             => currentStars' = currentStars - 1
          /\ last'.type = "REVEAL_HINT" => currentStars' = currentStars]_vars

W_C32_OneStarAfterHint ==
    /\ last.type = "REVEAL_HINT"
    /\ Len(game.revealedHints) = 2
    /\ Len(game.revealedClues) = 3
    /\ currentStars = 1

\* C33: SELECT_SUSPECT in status playing makes the given id the selected
\* suspect, whatever was selected before, and leaves every other field as
\* it was; selecting the suspect that was selected by the step before
\* changes nothing.
C33_SelectSuspectFrame ==
    [][/\ (last'.type = "SELECT_SUSPECT" /\ game.status = "playing")
          => game' = [game EXCEPT !.selectedSuspect = last'.arg]
       /\ (/\ last.type = "SELECT_SUSPECT" /\ last.from = "playing"
           /\ last'.type = "SELECT_SUSPECT" /\ last'.arg = last.arg)
          => game' = game]_vars

W_C33_SelectionReplaced ==
    /\ last.type = "SELECT_SUSPECT" /\ last.from = "playing" /\ last.arg = "s3"
    /\ game.selectedSuspect = "s3"
    /\ game.solution = "s1"
    /\ Len(game.revealedClues) = 2 /\ game.expandedSuspect = "s1"

(***************************************************************************)
(* The puzzle number                                                       *)
(***************************************************************************)
\* C34: the puzzle number is the number of whole days from EPOCH to now
\* plus 1, for every pool size; at a later load it is not smaller and has
\* grown by the number of UTC days passed; with a pool of 7 on the second
\* day after EPOCH the daily index is 2 and the puzzle number 3.
C34_PuzzleNumber ==
    call.fn = "dailyIndex"
    => /\ EPOCH + (call.number - 1) * MsPerDay <= call.nowMs
       /\ call.nowMs < EPOCH + call.number * MsPerDay
       /\ call.hasPrev
          => /\ call.number >= call.prevNumber
             /\ call.number - call.prevNumber = utcDay(call.nowMs) - utcDay(call.prevMs)
       /\ (call.poolSize = 7 /\ utcDay(call.nowMs) = utcDay(EPOCH) + 2)
          => call.index = 2 /\ call.number = 3

W_C34_PoolOfSeven ==
    /\ call.fn = "dailyIndex"
    /\ call.poolSize = 7
    /\ call.nowMs = EPOCH + 2 * MsPerDay
    /\ call.hasPrev /\ call.prevNumber = 2
    /\ call.index = 2 /\ call.number = 3

(***************************************************************************)
(* Further properties of the client                                        *)
(***************************************************************************)
\* C35: when the fetch of a puzzle fails, no START_PUZZLE is dispatched and
\* the session is in every field what it was; the error view is shown, and
\* it offers the way to load again: the Retry button on the daily tab, the
\* way back to the puzzle list otherwise.
C35_LoadFailureLeavesSession ==
    [][last'.type = "LoadFail"
       => /\ game' = game
          /\ sess' = sess
          /\ view' = "error"
          /\ \/ currentMode' = "daily" /\ daily' = "ready"
             \/ currentMode' = "practice"]_vars

W_C35_LoadFailedOverSession ==
    /\ last.type = "LoadFail" /\ last.arg = "p1"
    /\ view = "error" /\ currentMode = "daily"
    /\ game.puzzleId = "p1" /\ game.selectedSuspect = "s3"
    /\ Len(game.revealedClues) = 1

(***************************************************************************)
(* isDailyCompleted as a function of the completions, the id and the       *)
(* instant; instants are in milliseconds, day 0 being the first date key   *)
(***************************************************************************)
MaxSolvedDay == 3

\* Date.prototype.toISOString: the UTC date and the time of day
toISOString(ms) == [date |-> DateKeys[(ms \div MsPerDay) + 1], time |-> ms % MsPerDay]
\* iso.split('T')[0]
datePart(iso) == iso.date

\* a check on the age of the completion instead of its date
isDailyCompleted_Within24h(completedPuzzles, puzzleId, nowMs) ==
    IF puzzleId \notin DOMAIN completedPuzzles THEN FALSE
    ELSE LET c == completedPuzzles[puzzleId]
              solvedDay == CHOOSE d \in 0..(Len(DateKeys) - 1) : DateKeys[d + 1] = c.solvedAt.date
         IN nowMs - (solvedDay * MsPerDay + c.solvedAt.time) < MsPerDay

isDailyCompleted(completedPuzzles, puzzleId, nowMs) ==
    IF puzzleId \notin DOMAIN completedPuzzles THEN FALSE
    ELSE datePart(completedPuzzles[puzzleId].solvedAt) = datePart(toISOString(nowMs))

DayInstants ==
    {d * MsPerDay + ms : d \in 0..MaxSolvedDay, ms \in {0, MsPerDay \div 2, MsPerDay - 1}}
\* a record with no completion, or one completion of p1 or of p2 at an instant
CompletedInputs(nowMs) ==
    {initialPlayerState.completedPuzzles}
    \cup {[id \in {p} |-> [solvedAt |-> toISOString(t), correct |-> c, cluesUsed |-> 1,
                           timeSeconds |-> 75, stars |-> 3]] :
             p \in PuzzleIds, t \in {u \in DayInstants : u <= nowMs}, c \in BOOLEAN}

InitDailyCompleted ==
    /\ InitIdle
    /\ call \in {[fn |-> "input", nowMs |-> t, completedPuzzles |-> done] :
                    t \in DayInstants, done \in UNION {CompletedInputs(u) : u \in DayInstants}}
    /\ call.completedPuzzles \in CompletedInputs(call.nowMs)

\* dailyCompleted of AppInner for the daily id
ApplyDailyCompleted ==
    /\ call.fn = "input"
    /\ call' = [fn |-> "isDailyCompleted", nowMs |-> call.nowMs,
                completedPuzzles |-> call.completedPuzzles, puzzleId |-> DailyPuzzleId,
                result |-> isDailyCompleted(call.completedPuzzles, DailyPuzzleId, call.nowMs)]
    /\ UNCHANGED idleVars

NextDailyCompleted == ApplyDailyCompleted

SpecDailyCompleted == InitDailyCompleted /\ [][NextDailyCompleted]_vars

\* C36: isDailyCompleted is true exactly when the record holds a completion
\* of the id whose solved-at instant lies in the same UTC day as now; a
\* completion of the same id from an earlier day gives false.
C36_DailyCompletedToday ==
    call.fn = "isDailyCompleted"
    => (call.result
        <=> /\ call.puzzleId \in DOMAIN call.completedPuzzles
            /\ \E d \in 0..(MaxSolvedDay + 1) :
                  /\ d * MsPerDay <= call.nowMs /\ call.nowMs < (d + 1) * MsPerDay
                  /\ call.completedPuzzles[call.puzzleId].solvedAt.date = DateKeys[d + 1])

W_C36_SolvedJustBeforeMidnight ==
    /\ call.fn = "isDailyCompleted"
    /\ call.nowMs = 2 * MsPerDay
    /\ DOMAIN call.completedPuzzles = {"p1"}
    /\ call.completedPuzzles["p1"].solvedAt = [date |-> DateKeys[2], time |-> MsPerDay - 1]
    /\ call.completedPuzzles["p1"].correct
    /\ ~call.result

(***************************************************************************)
(* The verdict against the solution and the selection the session holds    *)
(***************************************************************************)
\* C37: in every session state with status solved the culprit of the
\* attached solution is the selected suspect, and with status failed it is
\* another suspect.
C37_VerdictMatchesSolution ==
    /\ game.status = "solved" => culprit(game.solution) = game.selectedSuspect
    /\ game.status = "failed" => culprit(game.solution) # game.selectedSuspect

\* C38: in every session state solvedAt is set exactly when the status is
\* solved or failed, and a session with a terminal status has a selected
\* suspect and a solution.
C38_TerminalFields ==
    /\ game.solvedAt # NullTime <=> game.status \in {"solved", "failed"}
    /\ game.status \in {"solved", "failed"}
       => game.selectedSuspect # NULL /\ game.solution # NULL

W_C38_FailedSession ==
    /\ game.status = "failed" /\ game.solvedAt = 2
    /\ game.selectedSuspect = "s2" /\ game.solution = "s1"
    /\ last.type = "SET_SOLUTION" /\ last.from = "failed"

\* C39: when two puzzle loads are in flight at once, the session ends on the
\* puzzle requested last, whatever order the two fetches resolve in: a load
\* that resolves after a later-requested load has started its session leaves
\* the session on that later puzzle.
C39_LastRequestedWins ==
    [][(last'.type = "LoadResolve" /\ Len(loads') = Len(loads) - 1)
       => last'.supersededBy \in {NULL, game'.puzzleId}]_vars

\* C40: on a mount that finds a valid stored snapshot, the save scheduled
\* for the initial default record is cancelled by the LOAD_STATE change: the
\* only timeout pending after the mount is for the loaded record.  Every
\* write over a valid snapshot carries that snapshot's data (its completions,
\* streak and achievements), so the default record is not written over a
\* snapshot whose data are not the default's.
C40_DefaultNeverWritten ==
    [][/\ (last'.type = "Mount" /\ last'.arg = "LOAD_STATE")
          => /\ player' = reduceLoadState(initialPlayerState,
                                          LoadStateAct(loadFromStorage(storage)[1]))
             /\ Cardinality(timers') = 1
             /\ \A t \in timers' : t.state = player'
       /\ (last'.type = "SaveTimerFires" /\ loadFromStorage(storage) # <<>>)
          => LET loaded == stringify(reduceLoadState(initialPlayerState,
                                LoadStateAct(loadFromStorage(storage)[1])))
                 data == {"completedPuzzles", "streak", "achievements"}
                 default == stringify(initialPlayerState)
             IN /\ \A f \in data : storage'[1][f] = loaded[f]
                /\ (\E f \in data : loaded[f] # default[f])
                   => storage' # <<default>>]_vars

W_C40_LoadedSnapshotWritten ==
    /\ last.type = "SaveTimerFires"
    /\ last.arg = <<SnapshotV2>>
    /\ provider.mounted /\ timers = {}
    /\ player = reduceLoadState(initialPlayerState, LoadStateAct(SnapshotV2))
    /\ storage = <<stringify(player)>>
    /\ storage # <<stringify(initialPlayerState)>>

(***************************************************************************)
(* The streak against the days on which UPDATE_STREAK was dispatched       *)
(***************************************************************************)
\* the day number of a date key
dayOf(key) == CHOOSE d \in 0..(Len(DateKeys) - 1) : DateKeys[d + 1] = key
\* the number of consecutive days of the set that end at day d
runEndingAt(days, d) == Cardinality({k \in 0..d : \A j \in k..d : j \in days})

\* C25: in every state of the Player Record streak.current is the number of
\* consecutive UTC days, ending at streak.lastDailyDate, on each of which
\* UPDATE_STREAK was dispatched (0 when lastDailyDate is empty).
C25_StreakCountsConsecutiveDays ==
    player.streak.current =
        IF player.streak.lastDailyDate = "" THEN 0
        ELSE runEndingAt(streakDays, dayOf(player.streak.lastDailyDate))

(***************************************************************************)
(* Retry after a failed solution fetch                                     *)
(***************************************************************************)
\* C26: a retry of the confirm action after a failed solution fetch works
\* with the suspect and the clue count the failed attempt had captured,
\* whatever the player selected or revealed in between.
C26_RetryUsesCapturedValues ==
    [][(last'.type = "RetryAccusation" /\ failedAttempt # <<>>)
       => /\ last'.arg.capturedSuspect = failedAttempt[1].capturedSuspect
          /\ last'.arg.capturedCluesUsed = failedAttempt[1].capturedCluesUsed]_vars

(***************************************************************************)
(* UNLOCK_ACHIEVEMENTS as a function of the record and the id list         *)
(***************************************************************************)
MaxIds == 3
AchievementIds == {"first-case", "mastermind", "veteran"}
\* every list of one to MaxIds ids
IdLists == UNION {[1..n -> AchievementIds] : n \in 1..MaxIds}
UnlockedInputs == {<<>>, <<"first-case">>, <<"veteran", "first-case">>}

InitUnlock ==
    /\ InitIdle
    /\ call \in {[fn |-> "input", achievements |-> a, ids |-> ids] :
                    a \in UnlockedInputs, ids \in IdLists}

ApplyUnlock ==
    /\ call.fn = "input"
    /\ LET state == [initialPlayerState EXCEPT !.achievements = call.achievements]
           next == playerReducer(state, UnlockAchievementsAct(call.ids), now)
       IN call' = [fn |-> "UNLOCK_ACHIEVEMENTS", achievements |-> call.achievements,
                   ids |-> call.ids, result |-> next.achievements,
                   same |-> next = state]
    /\ UNCHANGED idleVars

NextUnlock == ApplyUnlock

SpecUnlock == InitUnlock /\ [][NextUnlock]_vars

=============================================================================
